---- MODULE Spec2Model ----
(***************************************************************************)
(* Key resolution of libkleo: KeyResolverCore (src/kleo/keyresolvercore.cpp)*)
(* as a state machine.  The state is the private data of one resolver      *)
(* object; the actions are its public configuration calls and the stages   *)
(* of resolve().  The key cache is a fixed store of certificates.          *)
(***************************************************************************)
EXTENDS Integers, Sequences, FiniteSets, TLC

(***************************************************************************)
(* Bounds of the model.                                                    *)
(***************************************************************************)
\* distinct recipient addresses configured
MaxRecipients == 2
\* override entries configured
MaxOverrides == 2
\* addresses recorded as not extractable
MaxFatalErrors == 1
\* signing certificates set by the caller
MaxSigningKeys == 2
\* resolve() is not called again once a slot holds more certificates than this
MaxKeysPerSlot == 2

(***************************************************************************)
(* GpgME::Protocol, in the order of the enum (the iteration order of a     *)
(* QMap keyed by Protocol).                                                *)
(***************************************************************************)
OpenPGP == "OpenPGP"
CMS == "CMS"
UnknownProtocol == "UnknownProtocol"
Protocols == {OpenPGP, CMS, UnknownProtocol}
ProtocolOrder == <<OpenPGP, CMS, UnknownProtocol>>

(***************************************************************************)
(* GpgME::UserID::Validity.                                                *)
(***************************************************************************)
Unknown == 0
Marginal == 3
Full == 4
Ultimate == 5

(***************************************************************************)
(* The certificate store.  A key is a record of the attributes the         *)
(* resolver reads; keys are held in the state by fingerprint.              *)
(***************************************************************************)
MkKey(proto, expired, secret, addr, validity) ==
    [protocol |-> proto, isRevoked |-> FALSE, isExpired |-> expired,
     isDisabled |-> FALSE, canEncrypt |-> TRUE, canSign |-> TRUE,
     hasSecret |-> secret, isDeVs |-> TRUE,
     userIDs |-> << [addrSpec |-> addr, validity |-> validity] >>]

\* the certificates of the resolver's test keyring
TestKeys ==
    ("Pm" :> MkKey(OpenPGP, FALSE, TRUE, "m", Ultimate)) @@
    ("Cm" :> MkKey(CMS, FALSE, TRUE, "m", Full)) @@
    ("Pf" :> MkKey(OpenPGP, FALSE, FALSE, "f", Full)) @@
    ("Cf" :> MkKey(CMS, FALSE, FALSE, "f", Full)) @@
    ("Pp" :> MkKey(OpenPGP, FALSE, TRUE, "p", Ultimate)) @@
    ("Cc" :> MkKey(CMS, FALSE, TRUE, "c", Full)) @@
    ("Px" :> MkKey(OpenPGP, TRUE, FALSE, "u", Full))

\* members of groups (G*) and single certificates, one for each way a
\* certificate can fail ValidEncryptionKey, ValidSigningKey, the compliance
\* test or the validity test; all of them have a secret key
FlawedKeys ==
    ("Ga" :> MkKey(OpenPGP, FALSE, TRUE, "a", Full)) @@
    ("Gb" :> MkKey(OpenPGP, FALSE, TRUE, "b", Unknown)) @@
    ("Gc" :> MkKey(CMS, FALSE, TRUE, "a", Full)) @@
    ("Ge" :> MkKey(CMS, TRUE, TRUE, "b", Full)) @@
    ("Gr" :> [MkKey(OpenPGP, FALSE, TRUE, "b", Full) EXCEPT !.isRevoked = TRUE]) @@
    ("Gd" :> [MkKey(CMS, FALSE, TRUE, "b", Full) EXCEPT !.isDisabled = TRUE]) @@
    ("Gn" :> [MkKey(OpenPGP, FALSE, TRUE, "b", Full) EXCEPT !.canEncrypt = FALSE]) @@
    ("Gs" :> [MkKey(CMS, FALSE, TRUE, "b", Full) EXCEPT !.canSign = FALSE]) @@
    ("Gv" :> [MkKey(OpenPGP, FALSE, TRUE, "b", Full) EXCEPT !.isDeVs = FALSE]) @@
    ("Pw" :> MkKey(OpenPGP, FALSE, TRUE, "w", Marginal)) @@
    ("Cw" :> MkKey(CMS, FALSE, TRUE, "x", Full)) @@
    ("Pr" :> [MkKey(OpenPGP, FALSE, TRUE, "r", Full) EXCEPT !.isRevoked = TRUE]) @@
    ("Cd" :> [MkKey(CMS, FALSE, TRUE, "r", Full) EXCEPT !.isDisabled = TRUE]) @@
    ("Pn" :> [MkKey(OpenPGP, FALSE, TRUE, "n", Full) EXCEPT !.canEncrypt = FALSE]) @@
    ("Cv" :> [MkKey(CMS, FALSE, TRUE, "n", Full) EXCEPT !.isDeVs = FALSE])

Keys == TestKeys @@ FlawedKeys

Fingerprints == DOMAIN Keys

\* the store's candidates per mailbox and protocol
TestMailBox ==
    ("m" :> (OpenPGP :> <<"Pm">> @@ CMS :> <<"Cm">>)) @@
    ("f" :> (OpenPGP :> <<"Pf">> @@ CMS :> <<"Cf">>)) @@
    ("p" :> (OpenPGP :> <<"Pp">> @@ CMS :> <<>>)) @@
    ("c" :> (OpenPGP :> <<>> @@ CMS :> <<"Cc">>)) @@
    ("u" :> (OpenPGP :> <<"Px">> @@ CMS :> <<>>))

\* mailboxes that resolve to a group of two certificates (g, h, k, j) or to
\* a single certificate that fails one test (w, r, n)
FlawedMailBox ==
    ("g" :> (OpenPGP :> <<"Ga", "Gb">> @@ CMS :> <<"Gc", "Ge">>)) @@
    ("h" :> (OpenPGP :> <<"Ga", "Gr">> @@ CMS :> <<"Gc", "Gd">>)) @@
    ("k" :> (OpenPGP :> <<"Ga", "Gn">> @@ CMS :> <<"Gc", "Gs">>)) @@
    ("j" :> (OpenPGP :> <<"Ga", "Gv">> @@ CMS :> <<>>)) @@
    ("w" :> (OpenPGP :> <<"Pw">> @@ CMS :> <<"Cw">>)) @@
    ("r" :> (OpenPGP :> <<"Pr">> @@ CMS :> <<"Cd">>)) @@
    ("n" :> (OpenPGP :> <<"Pn">> @@ CMS :> <<"Cv">>))

MailBox == TestMailBox @@ FlawedMailBox

Addresses == DOMAIN MailBox

\* KeyCache::findByKeyIDOrFingerprint: the fingerprint itself, or "" for a null key
findByKeyIDOrFingerprint(fprOrId) ==
    IF fprOrId \in Fingerprints THEN fprOrId ELSE ""

isNull(key) == key = ""

\* KeyCache::findBestByMailBox(addr, proto, needSign, needEncrypt)
findBestByMailBox(addr, proto, needSign, needEncrypt) ==
    IF addr \notin Addresses \/ proto \notin {OpenPGP, CMS} THEN <<>>
    ELSE SelectSeq(MailBox[addr][proto],
                   LAMBDA k : (needSign => Keys[k].hasSecret))

\* GpgME::UserID::addrSpecFromString: the mailbox of a raw address, "" on failure
addrSpecFromString(raw) ==
    CASE raw \in Addresses -> raw
      [] raw = "N <f>" -> "f"
      [] OTHER -> ""

(***************************************************************************)
(* Inputs of the configuration calls.                                      *)
(***************************************************************************)
SenderInputs == {"m", "p"}
RecipientInputs == {"f", "p", "c", "u"}
OverrideAddressInputs == {"N <f>"}
FingerprintLists == {<<"Pm">>, <<"Cm">>, <<"Pm", "Cm">>, <<"NF", "Cm">>}

(***************************************************************************)
(* The state: the members of KeyResolverCore::Private, the position of     *)
(* resolve() and its locals.                                               *)
(***************************************************************************)
VARIABLES mFormat, mEncrypt, mSign, mSender, mRecipients, mSigKeys, mEncKeys,
          mOverrides, mFatalErrors, mAllowMixed, mPreferredProtocol,
          mMinimumValidity, mCompliance,
          pc, unresolvedPGP, pgpOnly, unresolvedCMS, cmsOnly, result

config == <<mFormat, mEncrypt, mSign, mSender, mRecipients, mOverrides,
            mFatalErrors, mAllowMixed, mPreferredProtocol, mMinimumValidity,
            mCompliance>>
locals == <<unresolvedPGP, pgpOnly, unresolvedCMS, cmsOnly>>
vars == <<mFormat, mEncrypt, mSign, mSender, mRecipients, mSigKeys, mEncKeys,
          mOverrides, mFatalErrors, mAllowMixed, mPreferredProtocol,
          mMinimumValidity, mCompliance,
          pc, unresolvedPGP, pgpOnly, unresolvedCMS, cmsOnly, result>>

\* a QMap with no entries
EmptyMap == [x \in {} |-> <<>>]

\* QMap::insert / operator[]= : m with key k set to v
MapInsert(m, k, v) == [x \in DOMAIN m \cup {k} |-> IF x = k THEN v ELSE m[x]]

\* QMap::remove
MapRemove(m, k) == [x \in DOMAIN m \ {k} |-> m[x]]

\* QMap::value(k): the default-constructed (empty) list when k is absent
MapValue(m, k) == IF k \in DOMAIN m THEN m[k] ELSE <<>>

\* the per-address map of mEncKeys; an absent protocol and an empty list read the same
EmptySlots == [p \in Protocols |-> <<>>]

(***************************************************************************)
(* Certificate predicates.                                                 *)
(***************************************************************************)
ValidEncryptionKey(key) ==
    ~(isNull(key) \/ Keys[key].isRevoked \/ Keys[key].isExpired
      \/ Keys[key].isDisabled \/ ~Keys[key].canEncrypt)

ValidSigningKey(key) ==
    ~(isNull(key) \/ Keys[key].isRevoked \/ Keys[key].isExpired
      \/ Keys[key].isDisabled \/ ~Keys[key].canSign \/ ~Keys[key].hasSecret)

Max(a, b) == IF a >= b THEN a ELSE b
Min(a, b) == IF a <= b THEN a ELSE b

\* validity of the first user id matching the address, else the maximum over all user ids
RECURSIVE keyValidityFrom(_, _, _, _)
keyValidityFrom(uids, i, address, overallValidity) ==
    IF i > Len(uids) THEN overallValidity
    ELSE IF uids[i].addrSpec = address THEN uids[i].validity
    ELSE keyValidityFrom(uids, i + 1, address, Max(overallValidity, uids[i].validity))

keyValidity(key, address) == keyValidityFrom(Keys[key].userIDs, 1, address, Unknown)

RECURSIVE minimumValidityFrom(_, _, _, _)
minimumValidityFrom(keys, i, address, validity) ==
    IF i > Len(keys) THEN validity
    ELSE minimumValidityFrom(keys, i + 1, address, Min(validity, keyValidity(keys[i], address)))

minimumValidity(keys, address) ==
    LET minValidity == minimumValidityFrom(keys, 1, address, Ultimate + 1)
    IN  IF minValidity <= Ultimate THEN minValidity ELSE Unknown

isAcceptableSigningKey(key, compliance) ==
    IF ~ValidSigningKey(key) THEN FALSE
    ELSE IF compliance = "de-vs" /\ ~Keys[key].isDeVs THEN FALSE
    ELSE TRUE

\* an isAcceptableEncryptionKey that accepts a matching user id of any validity
isAcceptableEncryptionKey_anyValidity(key, address, minValidity, compliance) ==
    IF ~ValidEncryptionKey(key) THEN FALSE
    ELSE IF compliance = "de-vs" /\ ~Keys[key].isDeVs THEN FALSE
    ELSE IF address = "" THEN TRUE
    ELSE \E i \in 1..Len(Keys[key].userIDs) :
            Keys[key].userIDs[i].addrSpec = address

\* address = "" is the defaulted (empty) address argument
isAcceptableEncryptionKey(key, address, minValidity, compliance) ==
    IF ~ValidEncryptionKey(key) THEN FALSE
    ELSE IF compliance = "de-vs" /\ ~Keys[key].isDeVs THEN FALSE
    ELSE IF address = "" THEN TRUE
    ELSE \E i \in 1..Len(Keys[key].userIDs) :
            /\ Keys[key].userIDs[i].addrSpec = address
            /\ Keys[key].userIDs[i].validity >= minValidity

(***************************************************************************)
(* Configuration calls.                                                    *)
(***************************************************************************)
\* addRecipients on the triple (mRecipients, mEncKeys, mFatalErrors).
\* mRecipients is only ever queried with contains(), so the list is kept
\* as the set of its elements.
RECURSIVE addRecipients(_, _, _)
addRecipients(addresses, i, st) ==
    IF ~st.encrypt \/ i > Len(addresses) THEN st
    ELSE LET normalized == addrSpecFromString(addresses[i])
         IN  IF normalized = ""
             THEN addRecipients(addresses, i + 1,
                                [st EXCEPT !.fatal = Append(@, addresses[i])])
             ELSE addRecipients(addresses, i + 1,
                                [st EXCEPT !.recipients = @ \cup {normalized},
                                           !.encKeys = MapInsert(@, normalized, EmptySlots)])

RecipientState ==
    [encrypt |-> mEncrypt, recipients |-> mRecipients, encKeys |-> mEncKeys,
     fatal |-> mFatalErrors]

setSender(address) ==
    /\ pc = "Start"
    /\ LET normalized == addrSpecFromString(address)
       IN  IF normalized = ""
           THEN /\ Len(mFatalErrors) < MaxFatalErrors
                /\ mFatalErrors' = Append(mFatalErrors, address)
                /\ UNCHANGED <<mSender, mRecipients, mEncKeys>>
           ELSE LET st == addRecipients(<<address>>, 1, RecipientState)
                IN  /\ Cardinality(st.recipients) <= MaxRecipients
                    /\ mSender' = IF mSign THEN normalized ELSE mSender
                    /\ mRecipients' = st.recipients
                    /\ mEncKeys' = st.encKeys
                    /\ mFatalErrors' = st.fatal
    /\ UNCHANGED <<mFormat, mEncrypt, mSign, mSigKeys, mOverrides, mAllowMixed,
                   mPreferredProtocol, mMinimumValidity, mCompliance, pc,
                   locals, result>>

setRecipients(addresses) ==
    /\ pc = "Start"
    /\ LET st == addRecipients(addresses, 1, RecipientState)
       IN  /\ Cardinality(st.recipients) <= MaxRecipients
           /\ Len(st.fatal) <= MaxFatalErrors
           /\ mRecipients' = st.recipients
           /\ mEncKeys' = st.encKeys
           /\ mFatalErrors' = st.fatal
    /\ UNCHANGED <<mFormat, mEncrypt, mSign, mSender, mSigKeys, mOverrides,
                   mAllowMixed, mPreferredProtocol, mMinimumValidity,
                   mCompliance, pc, locals, result>>

\* the entries of `overrides' in the iteration order of the nested QMaps,
\* each [protocol, address, fingerprints]
RECURSIVE storeOverrides(_, _, _)
storeOverrides(overrides, i, m) ==
    IF i > Len(overrides) THEN m
    ELSE LET normalizedAddress == addrSpecFromString(overrides[i].address)
             inner == IF normalizedAddress \in DOMAIN m THEN m[normalizedAddress]
                      ELSE EmptyMap
         IN  storeOverrides(overrides, i + 1,
                            MapInsert(m, normalizedAddress,
                                      MapInsert(inner, overrides[i].protocol,
                                                overrides[i].fingerprints)))

OverrideEntries(m) == UNION {{<<a, p>> : p \in DOMAIN m[a]} : a \in DOMAIN m}

setOverrideKeys(overrides) ==
    /\ pc = "Start"
    /\ mOverrides' = storeOverrides(overrides, 1, mOverrides)
    /\ Cardinality(OverrideEntries(mOverrides')) <= MaxOverrides
    /\ UNCHANGED <<mFormat, mEncrypt, mSign, mSender, mRecipients, mSigKeys,
                   mEncKeys, mFatalErrors, mAllowMixed, mPreferredProtocol,
                   mMinimumValidity, mCompliance, pc, locals, result>>

setAllowMixedProtocols(allowMixed) ==
    /\ pc = "Start"
    /\ mAllowMixed' = allowMixed
    /\ UNCHANGED <<mFormat, mEncrypt, mSign, mSender, mRecipients, mSigKeys,
                   mEncKeys, mOverrides, mFatalErrors, mPreferredProtocol,
                   mMinimumValidity, mCompliance, pc, locals, result>>

setPreferredProtocol(proto) ==
    /\ pc = "Start"
    /\ mPreferredProtocol' = proto
    /\ UNCHANGED <<mFormat, mEncrypt, mSign, mSender, mRecipients, mSigKeys,
                   mEncKeys, mOverrides, mFatalErrors, mAllowMixed,
                   mMinimumValidity, mCompliance, pc, locals, result>>

setMinimumValidity(validity) ==
    /\ pc = "Start"
    /\ mMinimumValidity' = validity
    /\ UNCHANGED <<mFormat, mEncrypt, mSign, mSender, mRecipients, mSigKeys,
                   mEncKeys, mOverrides, mFatalErrors, mAllowMixed,
                   mPreferredProtocol, mCompliance, pc, locals, result>>

\* the loop of setSigningKeys over the fingerprints
RECURSIVE addSigningKeys(_, _, _)
addSigningKeys(sigKeys, fingerprints, i) ==
    IF i > Len(fingerprints) THEN sigKeys
    ELSE LET key == findByKeyIDOrFingerprint(fingerprints[i])
         IN  IF isNull(key) THEN addSigningKeys(sigKeys, fingerprints, i + 1)
             ELSE LET list == MapValue(sigKeys, Keys[key].protocol)
                  IN  addSigningKeys(MapInsert(sigKeys, Keys[key].protocol,
                                               Append(list, key)),
                                     fingerprints, i + 1)

SigningKeyCount(sigKeys) ==
    Len(MapValue(sigKeys, OpenPGP)) + Len(MapValue(sigKeys, CMS))

setSigningKeys(fingerprints) ==
    /\ pc = "Start"
    /\ mSigKeys' = IF mSign THEN addSigningKeys(mSigKeys, fingerprints, 1)
                   ELSE mSigKeys
    /\ SigningKeyCount(mSigKeys') <= MaxSigningKeys
    /\ UNCHANGED <<mFormat, mEncrypt, mSign, mSender, mRecipients, mEncKeys,
                   mOverrides, mFatalErrors, mAllowMixed, mPreferredProtocol,
                   mMinimumValidity, mCompliance, pc, locals, result>>

(***************************************************************************)
(* The stages of resolve(), as functions of the data they read.            *)
(***************************************************************************)
\* an applyFingerprints that drops certificates failing ValidEncryptionKey
RECURSIVE applyFingerprints_validOnly(_, _, _, _)
applyFingerprints_validOnly(slots, protocol, fingerprints, i) ==
    IF i > Len(fingerprints) THEN slots
    ELSE LET key == findByKeyIDOrFingerprint(fingerprints[i])
         IN  IF isNull(key) \/ ~ValidEncryptionKey(key)
             THEN applyFingerprints_validOnly(slots, protocol, fingerprints, i + 1)
             ELSE LET resolvedFmt == IF protocol = UnknownProtocol
                                     THEN Keys[key].protocol ELSE protocol
                  IN  applyFingerprints_validOnly(
                          [slots EXCEPT ![resolvedFmt] = Append(@, key)],
                          protocol, fingerprints, i + 1)

\* an applyFingerprints that gives up at the first reference it cannot find
RECURSIVE applyFingerprints_stopAtMissing(_, _, _, _)
applyFingerprints_stopAtMissing(slots, protocol, fingerprints, i) ==
    IF i > Len(fingerprints) THEN slots
    ELSE LET key == findByKeyIDOrFingerprint(fingerprints[i])
         IN  IF isNull(key) THEN slots
             ELSE LET resolvedFmt == IF protocol = UnknownProtocol
                                     THEN Keys[key].protocol ELSE protocol
                  IN  applyFingerprints_stopAtMissing(
                          [slots EXCEPT ![resolvedFmt] = Append(@, key)],
                          protocol, fingerprints, i + 1)

RECURSIVE applyFingerprints(_, _, _, _)
applyFingerprints(slots, protocol, fingerprints, i) ==
    IF i > Len(fingerprints) THEN slots
    ELSE LET key == findByKeyIDOrFingerprint(fingerprints[i])
         IN  IF isNull(key)
             THEN applyFingerprints(slots, protocol, fingerprints, i + 1)
             ELSE LET resolvedFmt == IF protocol = UnknownProtocol
                                     THEN Keys[key].protocol ELSE protocol
                  IN  applyFingerprints([slots EXCEPT ![resolvedFmt] = Append(@, key)],
                                        protocol, fingerprints, i + 1)

\* a skipWrongFormat that never skips
skipWrongFormat_never(format, protocol) == FALSE

\* "Skip overrides for the wrong format"
skipWrongFormat(format, protocol) ==
    (format = OpenPGP /\ protocol = CMS) \/ (format = CMS /\ protocol = OpenPGP)

RECURSIVE applyProtocols(_, _, _, _)
applyProtocols(slots, protocolFingerprintsMap, format, i) ==
    IF i > Len(ProtocolOrder) THEN slots
    ELSE LET protocol == ProtocolOrder[i]
         IN  IF protocol \notin DOMAIN protocolFingerprintsMap
                \/ skipWrongFormat(format, protocol)
             THEN applyProtocols(slots, protocolFingerprintsMap, format, i + 1)
             ELSE applyProtocols(applyFingerprints(slots, protocol,
                                                   protocolFingerprintsMap[protocol], 1),
                                 protocolFingerprintsMap, format, i + 1)

\* a resolveOverrides without the check that the address is a recipient
resolveOverrides_anyAddress(encKeys, overrides, recipients, format, encrypt) ==
    IF ~encrypt THEN encKeys
    ELSE [address \in DOMAIN encKeys \cup DOMAIN overrides |->
            IF address \in DOMAIN overrides
            THEN applyProtocols(IF address \in DOMAIN encKeys THEN encKeys[address]
                                ELSE EmptySlots,
                                overrides[address], format, 1)
            ELSE encKeys[address]]

resolveOverrides(encKeys, overrides, recipients, format, encrypt) ==
    IF ~encrypt THEN encKeys
    ELSE [address \in DOMAIN encKeys |->
            IF address \in DOMAIN overrides /\ address \in recipients
            THEN applyProtocols(encKeys[address], overrides[address], format, 1)
            ELSE encKeys[address]]

\* a resolveSign that stores the acceptable candidates and skips the others
resolveSign_partial(sigKeys, proto, sender, compliance) ==
    IF proto \in DOMAIN sigKeys THEN sigKeys
    ELSE LET keys == SelectSeq(findBestByMailBox(sender, proto, TRUE, FALSE),
                               LAMBDA k : isAcceptableSigningKey(k, compliance))
         IN  IF keys # <<>> THEN MapInsert(sigKeys, proto, keys) ELSE sigKeys

\* a resolveSign that looks the sender up even when the slot is already set
resolveSign_always(sigKeys, proto, sender, compliance) ==
    LET keys == findBestByMailBox(sender, proto, TRUE, FALSE)
    IN  IF \E i \in 1..Len(keys) :
               ~isNull(keys[i]) /\ ~isAcceptableSigningKey(keys[i], compliance)
        THEN sigKeys
        ELSE IF keys # <<>> /\ ~isNull(keys[1])
        THEN MapInsert(sigKeys, proto, keys)
        ELSE sigKeys

resolveSign(sigKeys, proto, sender, compliance) ==
    IF proto \in DOMAIN sigKeys THEN sigKeys
    ELSE LET keys == findBestByMailBox(sender, proto, TRUE, FALSE)
         IN  IF \E i \in 1..Len(keys) :
                    ~isNull(keys[i]) /\ ~isAcceptableSigningKey(keys[i], compliance)
             THEN sigKeys
             ELSE IF keys # <<>> /\ ~isNull(keys[1])
             THEN MapInsert(sigKeys, proto, keys)
             ELSE sigKeys

\* a resolveRecipient that skips the unacceptable members of a group
resolveRecipient_partial(address, protocol, minValidity, compliance) ==
    LET keys == findBestByMailBox(address, protocol, FALSE, TRUE)
    IN  IF keys = <<>> \/ isNull(keys[1]) THEN <<>>
        ELSE IF Len(keys) = 1
        THEN IF ~isAcceptableEncryptionKey(keys[1], address, minValidity, compliance)
             THEN <<>> ELSE keys
        ELSE SelectSeq(keys, LAMBDA k :
                 isAcceptableEncryptionKey(k, "", minValidity, compliance))

resolveRecipient(address, protocol, minValidity, compliance) ==
    LET keys == findBestByMailBox(address, protocol, FALSE, TRUE)
    IN  IF keys = <<>> \/ isNull(keys[1]) THEN <<>>
        ELSE IF Len(keys) = 1
        THEN IF ~isAcceptableEncryptionKey(keys[1], address, minValidity, compliance)
             THEN <<>> ELSE keys
        ELSE IF \E i \in 1..Len(keys) :
                    ~isAcceptableEncryptionKey(keys[i], "", minValidity, compliance)
             THEN <<>> ELSE keys

resolveEnc(encKeys, proto, minValidity, compliance) ==
    [address \in DOMAIN encKeys |->
        IF encKeys[address][proto] # <<>> THEN encKeys[address]
        ELSE [encKeys[address] EXCEPT
                ![proto] = resolveRecipient(address, proto, minValidity, compliance)]]

\* a mergeEncryptionKeys that decides by the preference alone
mergeEncryptionKeys_byPreference(encKeys, preferred) ==
    [address \in DOMAIN encKeys |->
        LET protocolKeysMap == encKeys[address]
            keysOpenPGP == protocolKeysMap[OpenPGP]
            keysCMS == protocolKeysMap[CMS]
        IN  IF protocolKeysMap[UnknownProtocol] # <<>> THEN protocolKeysMap
            ELSE IF keysOpenPGP = <<>> /\ keysCMS = <<>> THEN protocolKeysMap
            ELSE IF keysCMS = <<>>
            THEN [protocolKeysMap EXCEPT ![UnknownProtocol] = keysOpenPGP]
            ELSE IF keysOpenPGP = <<>> \/ preferred = CMS
            THEN [protocolKeysMap EXCEPT ![UnknownProtocol] = keysCMS]
            ELSE [protocolKeysMap EXCEPT ![UnknownProtocol] = keysOpenPGP]]

mergeEncryptionKeys(encKeys, preferred) ==
    [address \in DOMAIN encKeys |->
        LET protocolKeysMap == encKeys[address]
            keysOpenPGP == protocolKeysMap[OpenPGP]
            keysCMS == protocolKeysMap[CMS]
            validityPGP == minimumValidity(keysOpenPGP, address)
            validityCMS == minimumValidity(keysCMS, address)
        IN  IF protocolKeysMap[UnknownProtocol] # <<>> THEN protocolKeysMap
            ELSE IF keysOpenPGP = <<>> /\ keysCMS = <<>> THEN protocolKeysMap
            ELSE IF keysOpenPGP # <<>> /\ keysCMS = <<>>
            THEN [protocolKeysMap EXCEPT ![UnknownProtocol] = keysOpenPGP]
            ELSE IF keysOpenPGP = <<>> /\ keysCMS # <<>>
            THEN [protocolKeysMap EXCEPT ![UnknownProtocol] = keysCMS]
            ELSE IF validityPGP > validityCMS
                    \/ (validityPGP = validityCMS /\ preferred = OpenPGP)
            THEN [protocolKeysMap EXCEPT ![UnknownProtocol] = keysOpenPGP]
            ELSE IF validityCMS > validityPGP
                    \/ (validityCMS = validityPGP /\ preferred = CMS)
            THEN [protocolKeysMap EXCEPT ![UnknownProtocol] = keysCMS]
            ELSE [protocolKeysMap EXCEPT ![UnknownProtocol] = keysOpenPGP]]

\* an unresolvedRecipients that takes a merged list for a list of the protocol
unresolvedRecipients_unlessMerged(encKeys, protocol) ==
    {address \in DOMAIN encKeys :
        encKeys[address][protocol] = <<>> /\ encKeys[address][UnknownProtocol] = <<>>}

unresolvedRecipients(encKeys, protocol) ==
    {address \in DOMAIN encKeys : encKeys[address][protocol] = <<>>}

\* a needsUser that only looks at the signing keys
needsUser_signingOnly(sign, sigKeys, unresPGP, pgp, unresCMS, cms) ==
    IF ~pgp /\ ~cms
    THEN sign /\ ~(OpenPGP \in DOMAIN sigKeys /\ CMS \in DOMAIN sigKeys)
    ELSE FALSE

\* a needsUser that only looks at the recipients
needsUser_recipientsOnly(sign, sigKeys, unresPGP, pgp, unresCMS, cms) ==
    IF ~pgp /\ ~cms
    THEN \E unresolved \in unresPGP : unresolved \in unresCMS
    ELSE FALSE

\* "Check if we need the user to select different keys."
needsUser(sign, sigKeys, unresPGP, pgp, unresCMS, cms) ==
    IF ~pgp /\ ~cms
    THEN (\E unresolved \in unresPGP : unresolved \in unresCMS)
         \/ (sign /\ ~(OpenPGP \in DOMAIN sigKeys /\ CMS \in DOMAIN sigKeys))
    ELSE FALSE

\* a removedProtocol that drops the one complete protocol
removedProtocol_complete(preferred, pgp, cms) ==
    IF pgp /\ cms THEN (IF preferred = CMS THEN OpenPGP ELSE CMS)
    ELSE IF pgp THEN OpenPGP
    ELSE IF cms THEN CMS
    ELSE ""

\* the protocol removed from mSigKeys and mEncKeys on success, "" if none
removedProtocol(preferred, pgp, cms) ==
    IF pgp /\ cms THEN (IF preferred = CMS THEN OpenPGP ELSE CMS)
    ELSE IF pgp THEN CMS
    ELSE IF cms THEN OpenPGP
    ELSE ""

removeProtocol(encKeys, proto) ==
    IF proto = "" THEN encKeys
    ELSE [address \in DOMAIN encKeys |-> [encKeys[address] EXCEPT ![proto] = <<>>]]

(***************************************************************************)
(* resolve(), one action per stage.  No configuration call runs while      *)
(* resolve() is executing (the resolver is single-threaded).               *)
(***************************************************************************)
\* "nothing to do" or "First resolve through overrides"
resolve_overrides ==
    /\ pc = "Start"
    /\ IF ~mSign /\ ~mEncrypt
       THEN /\ pc' = "Finalized"
            /\ result' = "true"
            /\ UNCHANGED mEncKeys
       ELSE /\ pc' = "OverridesApplied"
            /\ mEncKeys' = resolveOverrides(mEncKeys, mOverrides, mRecipients,
                                            mFormat, mEncrypt)
            /\ UNCHANGED result
    /\ UNCHANGED <<config, mSigKeys, locals>>

resolve_OpenPGP ==
    /\ pc = "OverridesApplied"
    /\ pc' = "ProtocolAResolved"
    /\ IF mFormat # CMS
       THEN /\ mSigKeys' = resolveSign(mSigKeys, OpenPGP, mSender, mCompliance)
            /\ mEncKeys' = resolveEnc(mEncKeys, OpenPGP, mMinimumValidity, mCompliance)
       ELSE UNCHANGED <<mSigKeys, mEncKeys>>
    /\ unresolvedPGP' = unresolvedRecipients(mEncKeys', OpenPGP)
    /\ pgpOnly' = (unresolvedPGP' = {} /\ (~mSign \/ OpenPGP \in DOMAIN mSigKeys'))
    /\ UNCHANGED <<config, unresolvedCMS, cmsOnly, result>>

\* a resolve_CMS that runs whatever protocol is forced
resolve_CMS_always ==
    /\ pc = "ProtocolAResolved"
    /\ pc' = "ProtocolBResolved"
    /\ mSigKeys' = resolveSign(mSigKeys, CMS, mSender, mCompliance)
    /\ mEncKeys' = resolveEnc(mEncKeys, CMS, mMinimumValidity, mCompliance)
    /\ unresolvedCMS' = unresolvedRecipients(mEncKeys', CMS)
    /\ cmsOnly' = (unresolvedCMS' = {} /\ (~mSign \/ CMS \in DOMAIN mSigKeys'))
    /\ UNCHANGED <<config, unresolvedPGP, pgpOnly, result>>

\* a resolve_CMS that skips the CMS lookup once OpenPGP is complete
resolve_CMS_unlessComplete ==
    /\ pc = "ProtocolAResolved"
    /\ pc' = "ProtocolBResolved"
    /\ IF mFormat # OpenPGP /\ ~pgpOnly
       THEN /\ mSigKeys' = resolveSign(mSigKeys, CMS, mSender, mCompliance)
            /\ mEncKeys' = resolveEnc(mEncKeys, CMS, mMinimumValidity, mCompliance)
       ELSE UNCHANGED <<mSigKeys, mEncKeys>>
    /\ unresolvedCMS' = unresolvedRecipients(mEncKeys', CMS)
    /\ cmsOnly' = (unresolvedCMS' = {} /\ (~mSign \/ CMS \in DOMAIN mSigKeys'))
    /\ UNCHANGED <<config, unresolvedPGP, pgpOnly, result>>

resolve_CMS ==
    /\ pc = "ProtocolAResolved"
    /\ pc' = "ProtocolBResolved"
    /\ IF mFormat # OpenPGP
       THEN /\ mSigKeys' = resolveSign(mSigKeys, CMS, mSender, mCompliance)
            /\ mEncKeys' = resolveEnc(mEncKeys, CMS, mMinimumValidity, mCompliance)
       ELSE UNCHANGED <<mSigKeys, mEncKeys>>
    /\ unresolvedCMS' = unresolvedRecipients(mEncKeys', CMS)
    /\ cmsOnly' = (unresolvedCMS' = {} /\ (~mSign \/ CMS \in DOMAIN mSigKeys'))
    /\ UNCHANGED <<config, unresolvedPGP, pgpOnly, result>>

\* a resolve_merge that goes back to the per-protocol stages
resolve_merge_retry ==
    /\ pc = "ProtocolBResolved"
    /\ pc' = "OverridesApplied"
    /\ mEncKeys' = IF mAllowMixed /\ mFormat = UnknownProtocol
                   THEN mergeEncryptionKeys(mEncKeys, mPreferredProtocol)
                   ELSE mEncKeys
    /\ UNCHANGED <<config, mSigKeys, locals, result>>

resolve_merge ==
    /\ pc = "ProtocolBResolved"
    /\ pc' = "Merged"
    /\ mEncKeys' = IF mAllowMixed /\ mFormat = UnknownProtocol
                   THEN mergeEncryptionKeys(mEncKeys, mPreferredProtocol)
                   ELSE mEncKeys
    /\ UNCHANGED <<config, mSigKeys, locals, result>>

\* a resolve_decide that drops the CMS data also when the user is needed
resolve_decide_collapseAnyway ==
    /\ pc = "Merged"
    /\ IF needsUser(mSign, mSigKeys, unresolvedPGP, pgpOnly, unresolvedCMS, cmsOnly)
       THEN /\ pc' = "NeedsDisambiguation"
            /\ result' = "false"
            /\ mSigKeys' = MapRemove(mSigKeys, CMS)
            /\ mEncKeys' = removeProtocol(mEncKeys, CMS)
       ELSE LET removed == removedProtocol(mPreferredProtocol, pgpOnly, cmsOnly)
            IN  /\ pc' = "Finalized"
                /\ result' = "true"
                /\ mSigKeys' = MapRemove(mSigKeys, removed)
                /\ mEncKeys' = removeProtocol(mEncKeys, removed)
    /\ UNCHANGED <<config, locals>>

resolve_decide ==
    /\ pc = "Merged"
    /\ IF needsUser(mSign, mSigKeys, unresolvedPGP, pgpOnly, unresolvedCMS, cmsOnly)
       THEN /\ pc' = "NeedsDisambiguation"
            /\ result' = "false"
            /\ UNCHANGED <<mSigKeys, mEncKeys>>
       ELSE LET removed == removedProtocol(mPreferredProtocol, pgpOnly, cmsOnly)
            IN  /\ pc' = "Finalized"
                /\ result' = "true"
                /\ mSigKeys' = MapRemove(mSigKeys, removed)
                /\ mEncKeys' = removeProtocol(mEncKeys, removed)
    /\ UNCHANGED <<config, locals>>

(***************************************************************************)
(* What the caller reads.                                                  *)
(***************************************************************************)
signingKeys == mSigKeys

\* Protocol -> address -> keys, only the non-empty lists
encryptionKeysOf(encKeys) ==
    LET used == {p \in Protocols : \E a \in DOMAIN encKeys : encKeys[a][p] # <<>>}
    IN  [p \in used |->
            [a \in {x \in DOMAIN encKeys : encKeys[x][p] # <<>>} |-> encKeys[a][p]]]

encryptionKeys == encryptionKeysOf(mEncKeys)

(***************************************************************************)
(* The resolver after construction, and its steps.                         *)
(***************************************************************************)
Init ==
    /\ mFormat \in Protocols
    /\ mEncrypt \in BOOLEAN
    /\ mSign \in BOOLEAN
    /\ mSender = ""
    /\ mRecipients = {}
    /\ mSigKeys = EmptyMap
    /\ mEncKeys = EmptyMap
    /\ mOverrides = EmptyMap
    /\ mFatalErrors = <<>>
    /\ mAllowMixed = TRUE
    /\ mPreferredProtocol = UnknownProtocol
    /\ mMinimumValidity = Marginal
    /\ mCompliance = ""
    /\ pc = "Start"
    /\ unresolvedPGP = {}
    /\ pgpOnly = FALSE
    /\ unresolvedCMS = {}
    /\ cmsOnly = FALSE
    /\ result = "none"

\* the argument of setRecipients: one or two addresses
RecipientLists ==
    {<<a>> : a \in RecipientInputs} \cup {<<"p", "c">>, <<"f", "u">>, <<"f", "f">>}

\* the argument of setOverrideKeys: one or two entries in QMap order
ProtocolIndex(p) == CHOOSE i \in 1..Len(ProtocolOrder) : ProtocolOrder[i] = p

OverrideEntryInputs ==
    [protocol : Protocols, address : OverrideAddressInputs,
     fingerprints : FingerprintLists]

OverrideMaps ==
    {<<e>> : e \in OverrideEntryInputs}
    \cup {<<e1, e2>> \in OverrideEntryInputs \X OverrideEntryInputs :
            ProtocolIndex(e1.protocol) < ProtocolIndex(e2.protocol)}

Next ==
    \/ \E address \in SenderInputs : setSender(address)
    \/ \E addresses \in RecipientLists : setRecipients(addresses)
    \/ \E overrides \in OverrideMaps : setOverrideKeys(overrides)
    \/ \E allowMixed \in BOOLEAN : setAllowMixedProtocols(allowMixed)
    \/ \E proto \in Protocols : setPreferredProtocol(proto)
    \/ resolve_overrides
    \/ resolve_OpenPGP
    \/ resolve_CMS
    \/ resolve_merge
    \/ resolve_decide

Spec == Init /\ [][Next]_vars

(***************************************************************************)
(* Automatic resolution against the flawed part of the store: no           *)
(* overrides, senders and recipients whose candidates are groups or fail   *)
(* a test, addresses that cannot be extracted, both compliance modes and   *)
(* a caller-set minimum validity.                                          *)
(***************************************************************************)
AutoSenderInputs == {"g", "h", "k", "j", "n", "bad"}

AutoRecipientLists ==
    {<<a>> : a \in {"g", "h", "k", "j", "w", "r", "n", "u"}}
    \cup {<<"bad">>, <<"w", "bad">>}

MinimumValidityInputs == {Marginal, Full}

\* Formatting::complianceMode() is read once, by the constructor
ComplianceModes == {"", "de-vs"}

InitAuto ==
    /\ mFormat \in Protocols
    /\ mEncrypt \in BOOLEAN
    /\ mSign \in BOOLEAN
    /\ mSender = ""
    /\ mRecipients = {}
    /\ mSigKeys = EmptyMap
    /\ mEncKeys = EmptyMap
    /\ mOverrides = EmptyMap
    /\ mFatalErrors = <<>>
    /\ mAllowMixed = TRUE
    /\ mPreferredProtocol = UnknownProtocol
    /\ mMinimumValidity = Marginal
    /\ mCompliance \in ComplianceModes
    /\ pc = "Start"
    /\ unresolvedPGP = {}
    /\ pgpOnly = FALSE
    /\ unresolvedCMS = {}
    /\ cmsOnly = FALSE
    /\ result = "none"

NextAuto ==
    \/ \E address \in AutoSenderInputs : setSender(address)
    \/ \E addresses \in AutoRecipientLists : setRecipients(addresses)
    \/ \E validity \in MinimumValidityInputs : setMinimumValidity(validity)
    \/ resolve_overrides
    \/ resolve_OpenPGP
    \/ resolve_CMS
    \/ resolve_merge
    \/ resolve_decide

SpecAuto == InitAuto /\ [][NextAuto]_vars

\* resolve() is straight-line code over finite loops: once entered, each of
\* its stages is eventually executed
SpecAutoLive ==
    /\ SpecAuto
    /\ WF_vars(resolve_OpenPGP)
    /\ WF_vars(resolve_CMS)
    /\ WF_vars(resolve_merge)
    /\ WF_vars(resolve_decide)

(***************************************************************************)
(* Overrides that name certificates automatic resolution would reject:     *)
(* expired (Px), revoked (Pr), disabled (Cd), not encrypting (Pn) and, for *)
(* the recipient f, without a user id of the address (Pw).                 *)
(***************************************************************************)
UnacceptableFingerprintLists ==
    {<<"Px">>, <<"Pr", "Pn">>, <<"Pw", "Px", "Pf">>, <<"Cd", "Cf">>}

UnacceptableOverrideMaps ==
    {<< [protocol |-> p, address |-> "N <f>", fingerprints |-> l] >> :
        p \in Protocols, l \in UnacceptableFingerprintLists}

InitOverrides ==
    /\ mFormat \in Protocols
    /\ mEncrypt \in BOOLEAN
    /\ mSign = FALSE
    /\ mSender = ""
    /\ mRecipients = {}
    /\ mSigKeys = EmptyMap
    /\ mEncKeys = EmptyMap
    /\ mOverrides = EmptyMap
    /\ mFatalErrors = <<>>
    /\ mAllowMixed = TRUE
    /\ mPreferredProtocol = UnknownProtocol
    /\ mMinimumValidity = Marginal
    /\ mCompliance = ""
    /\ pc = "Start"
    /\ unresolvedPGP = {}
    /\ pgpOnly = FALSE
    /\ unresolvedCMS = {}
    /\ cmsOnly = FALSE
    /\ result = "none"

NextOverrides ==
    \/ \E addresses \in {<<"f">>, <<"p">>} : setRecipients(addresses)
    \/ \E overrides \in UnacceptableOverrideMaps : setOverrideKeys(overrides)
    \/ \E allowMixed \in BOOLEAN : setAllowMixedProtocols(allowMixed)
    \/ \E proto \in Protocols : setPreferredProtocol(proto)
    \/ resolve_overrides
    \/ resolve_OpenPGP
    \/ resolve_CMS
    \/ resolve_merge
    \/ resolve_decide

SpecOverrides == InitOverrides /\ [][NextOverrides]_vars

(***************************************************************************)
(* Overrides with references the store does not hold ("NF", "NG"), alone   *)
(* and between references it holds.                                        *)
(***************************************************************************)
MissingFingerprintLists ==
    {<<"NF">>, <<"NF", "NG">>, <<"NF", "Pm">>, <<"Cm", "NF", "Pm">>}

MissingOverrideMaps ==
    {<< [protocol |-> p, address |-> "N <f>", fingerprints |-> l] >> :
        p \in Protocols, l \in MissingFingerprintLists}

InitMissing ==
    /\ mFormat \in Protocols
    /\ mEncrypt \in BOOLEAN
    /\ mSign \in BOOLEAN
    /\ mSender = ""
    /\ mRecipients = {}
    /\ mSigKeys = EmptyMap
    /\ mEncKeys = EmptyMap
    /\ mOverrides = EmptyMap
    /\ mFatalErrors = <<>>
    /\ mAllowMixed = TRUE
    /\ mPreferredProtocol = UnknownProtocol
    /\ mMinimumValidity = Marginal
    /\ mCompliance = ""
    /\ pc = "Start"
    /\ unresolvedPGP = {}
    /\ pgpOnly = FALSE
    /\ unresolvedCMS = {}
    /\ cmsOnly = FALSE
    /\ result = "none"

NextMissing ==
    \/ setSender("m")
    \/ \E addresses \in {<<"f">>, <<"c">>} : setRecipients(addresses)
    \/ \E overrides \in MissingOverrideMaps : setOverrideKeys(overrides)
    \/ \E allowMixed \in BOOLEAN : setAllowMixedProtocols(allowMixed)
    \/ \E proto \in Protocols : setPreferredProtocol(proto)
    \/ resolve_overrides
    \/ resolve_OpenPGP
    \/ resolve_CMS
    \/ resolve_merge
    \/ resolve_decide

SpecMissing == InitMissing /\ [][NextMissing]_vars

(***************************************************************************)
(* Requests of a caller who sets signing certificates: one the store       *)
(* would find for the sender m (Pm), one of somebody else (Cc) after a     *)
(* reference the store does not hold, and two that are no acceptable       *)
(* signing certificates (Px is expired, Px and Pf have no secret key).     *)
(***************************************************************************)
SigningKeyLists == {<<"Pm">>, <<"NF", "Cc">>, <<"Px", "Pf">>}

CallerOverrideMaps ==
    {<< [protocol |-> p, address |-> "N <f>", fingerprints |-> l] >> :
        p \in {CMS, UnknownProtocol}, l \in {<<"Pm">>, <<"Cm">>}}

InitCaller ==
    /\ mFormat \in Protocols
    /\ mEncrypt \in BOOLEAN
    /\ mSign \in BOOLEAN
    /\ mSender = ""
    /\ mRecipients = {}
    /\ mSigKeys = EmptyMap
    /\ mEncKeys = EmptyMap
    /\ mOverrides = EmptyMap
    /\ mFatalErrors = <<>>
    /\ mAllowMixed = TRUE
    /\ mPreferredProtocol = UnknownProtocol
    /\ mMinimumValidity = Marginal
    /\ mCompliance = ""
    /\ pc = "Start"
    /\ unresolvedPGP = {}
    /\ pgpOnly = FALSE
    /\ unresolvedCMS = {}
    /\ cmsOnly = FALSE
    /\ result = "none"

NextCaller ==
    \/ \E address \in {"m", "p"} : setSender(address)
    \/ \E addresses \in {<<"f">>, <<"c">>} : setRecipients(addresses)
    \/ \E fingerprints \in SigningKeyLists : setSigningKeys(fingerprints)
    \/ \E overrides \in CallerOverrideMaps : setOverrideKeys(overrides)
    \/ \E allowMixed \in BOOLEAN : setAllowMixedProtocols(allowMixed)
    \/ \E proto \in Protocols : setPreferredProtocol(proto)
    \/ resolve_overrides
    \/ resolve_OpenPGP
    \/ resolve_CMS
    \/ resolve_merge
    \/ resolve_decide

SpecCaller == InitCaller /\ [][NextCaller]_vars

(***************************************************************************)
(* resolve() called again on the same object: the call starts from the     *)
(* signing keys and encryption slots the previous call left.               *)
(***************************************************************************)
resolve_again ==
    /\ pc \in {"Finalized", "NeedsDisambiguation"}
    /\ \A a \in DOMAIN mEncKeys : \A p \in Protocols :
          Len(mEncKeys[a][p]) <= MaxKeysPerSlot
    /\ IF ~mSign /\ ~mEncrypt
       THEN /\ pc' = "Finalized"
            /\ result' = "true"
            /\ UNCHANGED mEncKeys
       ELSE /\ pc' = "OverridesApplied"
            /\ mEncKeys' = resolveOverrides(mEncKeys, mOverrides, mRecipients,
                                            mFormat, mEncrypt)
            /\ UNCHANGED result
    /\ UNCHANGED <<config, mSigKeys, locals>>

AgainOverrideMaps ==
    {<< [protocol |-> p, address |-> "N <f>", fingerprints |-> l] >> :
        p \in Protocols, l \in {<<"Pm">>, <<"Cm">>}}

InitAgain ==
    /\ mFormat \in Protocols
    /\ mEncrypt \in BOOLEAN
    /\ mSign \in BOOLEAN
    /\ mSender = ""
    /\ mRecipients = {}
    /\ mSigKeys = EmptyMap
    /\ mEncKeys = EmptyMap
    /\ mOverrides = EmptyMap
    /\ mFatalErrors = <<>>
    /\ mAllowMixed = TRUE
    /\ mPreferredProtocol = UnknownProtocol
    /\ mMinimumValidity = Marginal
    /\ mCompliance = ""
    /\ pc = "Start"
    /\ unresolvedPGP = {}
    /\ pgpOnly = FALSE
    /\ unresolvedCMS = {}
    /\ cmsOnly = FALSE
    /\ result = "none"

NextAgain ==
    \/ setSender("m")
    \/ \E addresses \in {<<"f">>, <<"c">>} : setRecipients(addresses)
    \/ \E overrides \in AgainOverrideMaps : setOverrideKeys(overrides)
    \/ \E allowMixed \in BOOLEAN : setAllowMixedProtocols(allowMixed)
    \/ \E proto \in Protocols : setPreferredProtocol(proto)
    \/ resolve_overrides
    \/ resolve_OpenPGP
    \/ resolve_CMS
    \/ resolve_merge
    \/ resolve_decide
    \/ resolve_again

SpecAgain == InitAgain /\ [][NextAgain]_vars

(***************************************************************************)
(* resolve() as one function of the request: the stages above composed in  *)
(* the order of the code, from the signing keys and encryption slots the   *)
(* resolver holds when resolve() is entered.                               *)
(***************************************************************************)
Request ==
    [format |-> mFormat, encrypt |-> mEncrypt, sign |-> mSign, sender |-> mSender,
     recipients |-> mRecipients, overrides |-> mOverrides,
     allowMixed |-> mAllowMixed, preferred |-> mPreferredProtocol,
     minValidity |-> mMinimumValidity, compliance |-> mCompliance]

Outcome(rq, sigKeys0, encKeys0) ==
    IF ~rq.sign /\ ~rq.encrypt
    THEN [result |-> "true", sigKeys |-> sigKeys0, encKeys |-> encKeys0]
    ELSE LET e1 == resolveOverrides(encKeys0, rq.overrides, rq.recipients,
                                    rq.format, rq.encrypt)
             s2 == IF rq.format # CMS
                   THEN resolveSign(sigKeys0, OpenPGP, rq.sender, rq.compliance)
                   ELSE sigKeys0
             e2 == IF rq.format # CMS
                   THEN resolveEnc(e1, OpenPGP, rq.minValidity, rq.compliance)
                   ELSE e1
             unresPGP == unresolvedRecipients(e2, OpenPGP)
             pgp == unresPGP = {} /\ (~rq.sign \/ OpenPGP \in DOMAIN s2)
             s3 == IF rq.format # OpenPGP
                   THEN resolveSign(s2, CMS, rq.sender, rq.compliance)
                   ELSE s2
             e3 == IF rq.format # OpenPGP
                   THEN resolveEnc(e2, CMS, rq.minValidity, rq.compliance)
                   ELSE e2
             unresCMS == unresolvedRecipients(e3, CMS)
             cms == unresCMS = {} /\ (~rq.sign \/ CMS \in DOMAIN s3)
             e4 == IF rq.allowMixed /\ rq.format = UnknownProtocol
                   THEN mergeEncryptionKeys(e3, rq.preferred)
                   ELSE e3
             removed == removedProtocol(rq.preferred, pgp, cms)
         IN  IF needsUser(rq.sign, s3, unresPGP, pgp, unresCMS, cms)
             THEN [result |-> "false", sigKeys |-> s3, encKeys |-> e4]
             ELSE [result |-> "true", sigKeys |-> MapRemove(s3, removed),
                   encKeys |-> removeProtocol(e4, removed)]

\* the slots of the configured recipients before resolve() has run
FreshEncKeys == [a \in mRecipients |-> EmptySlots]

(***************************************************************************)
(* Vocabulary of the properties.                                           *)
(***************************************************************************)
Terminal == pc \in {"Finalized", "NeedsDisambiguation"}

\* resolve() has returned from a request that asked for signing or encryption
Resolved == Terminal /\ (mSign \/ mEncrypt)

Other(p) == IF p = OpenPGP THEN CMS ELSE OpenPGP

\* the signing keys automatic lookup finds for the sender, <<>> if none
AutoSign(proto) ==
    MapValue(resolveSign(EmptyMap, proto, mSender, mCompliance), proto)

AutoEnc(address, proto) ==
    resolveRecipient(address, proto, mMinimumValidity, mCompliance)

\* the certificates an override list resolves to, in order
RECURSIVE FoundKeys(_)
FoundKeys(fingerprints) ==
    IF fingerprints = <<>> THEN <<>>
    ELSE IF isNull(findByKeyIDOrFingerprint(Head(fingerprints)))
    THEN FoundKeys(Tail(fingerprints))
    ELSE <<Head(fingerprints)>> \o FoundKeys(Tail(fingerprints))

SeqRange(q) == {q[i] : i \in 1..Len(q)}

\* the override list filed for (address, protocol), <<>> if none
OverrideOf(address, protocol) ==
    IF address \in DOMAIN mOverrides THEN MapValue(mOverrides[address], protocol)
    ELSE <<>>

HasOverride(address, protocol) ==
    address \in DOMAIN mOverrides /\ protocol \in DOMAIN mOverrides[address]

\* no candidate of the store for (address, proto) passes the test resolution applies to it
NoAcceptableCertificate(address, proto) ==
    LET keys == findBestByMailBox(address, proto, FALSE, TRUE)
    IN  \A i \in 1..Len(keys) :
            ~isAcceptableEncryptionKey(keys[i], IF Len(keys) = 1 THEN address ELSE "",
                                       mMinimumValidity, mCompliance)

\* every certificate held for an address, over all three slots
AssignedKeys(address) ==
    UNION {SeqRange(mEncKeys[address][p]) : p \in Protocols}

(***************************************************************************)
(* C1.  With mixing disallowed, no forced protocol and no overrides, if    *)
(* the sender (when signing) and every recipient resolve in both OpenPGP   *)
(* and CMS, resolve() reports success and the complete signing and         *)
(* encryption keys of both protocols are still returned: one protocol as   *)
(* the primary solution, the other as the alternative.                     *)
(***************************************************************************)
C1_BothResolvable ==
    /\ mSign \/ mRecipients # {}
    /\ mSign => \A p \in {OpenPGP, CMS} : AutoSign(p) # <<>>
    /\ \A a \in mRecipients : \A p \in {OpenPGP, CMS} : AutoEnc(a, p) # <<>>

C1_AlternativeKept ==
    (/\ Resolved
     /\ ~mAllowMixed
     /\ mFormat = UnknownProtocol
     /\ mOverrides = EmptyMap
     /\ C1_BothResolvable)
    => /\ result = "true"
       /\ \A p \in {OpenPGP, CMS} :
            /\ mSign => MapValue(signingKeys, p) = AutoSign(p)
            /\ \A a \in mRecipients : mEncKeys[a][p] = AutoEnc(a, p)

(***************************************************************************)
(* C2.  When both protocols are complete at decision time, the result      *)
(* retained after resolve() is the preferred protocol's (CMS only when CMS *)
(* is preferred, else OpenPGP): the signing keys are that protocol's, every*)
(* recipient has that protocol's keys and no retained encryption key       *)
(* belongs to the other protocol, with mixing disabled or enabled.  Stated *)
(* for requests without overrides, where a protocol's keys are the ones    *)
(* automatic lookup finds.                                                 *)
(***************************************************************************)
C2_Primary == IF mPreferredProtocol = CMS THEN CMS ELSE OpenPGP

C2_PrimaryIsPreferred ==
    (Resolved /\ pc = "Finalized" /\ pgpOnly /\ cmsOnly /\ mOverrides = EmptyMap)
    => /\ DOMAIN signingKeys \subseteq {C2_Primary}
       /\ mSign => MapValue(signingKeys, C2_Primary) = AutoSign(C2_Primary)
       /\ \A a \in mRecipients :
            /\ mEncKeys[a][C2_Primary] = AutoEnc(a, C2_Primary)
            /\ \A k \in AssignedKeys(a) : Keys[k].protocol = C2_Primary

(***************************************************************************)
(* C3.  A recipient with no acceptable certificate in either protocol and  *)
(* no override is, after resolve(), unresolved in OpenPGP and in CMS, and  *)
(* resolve() returns false (needs disambiguation), whatever the policy.    *)
(***************************************************************************)
C3_Gap(a) ==
    /\ a \in mRecipients
    /\ a \notin DOMAIN mOverrides
    /\ NoAcceptableCertificate(a, OpenPGP)
    /\ NoAcceptableCertificate(a, CMS)

C3_GapNeedsDisambiguation ==
    Resolved =>
        \A a \in mRecipients :
            C3_Gap(a) => /\ a \in unresolvedRecipients(mEncKeys, OpenPGP)
                         /\ a \in unresolvedRecipients(mEncKeys, CMS)
                         /\ pc = "NeedsDisambiguation"
                         /\ result = "false"

C3_Witness ==
    /\ Resolved
    /\ \E a \in mRecipients : C3_Gap(a)
    /\ result = "false"

(***************************************************************************)
(* C4.  With mixing disallowed, no forced protocol and no signing, if      *)
(* neither protocol covers every recipient although each recipient has a   *)
(* key in one of them, resolve() does not report full resolution, and each *)
(* protocol shows the recipients it cannot cover with no key.              *)
(***************************************************************************)
C4_MixedNeededNotReported ==
    (/\ Resolved
     /\ ~mAllowMixed
     /\ mFormat = UnknownProtocol
     /\ ~mSign
     /\ unresolvedPGP # {}
     /\ unresolvedCMS # {}
     /\ unresolvedPGP \cap unresolvedCMS = {})
    => /\ result = "false"
       /\ \A a \in unresolvedPGP : mEncKeys[a][OpenPGP] = <<>>
       /\ \A a \in unresolvedCMS : mEncKeys[a][CMS] = <<>>

(***************************************************************************)
(* C5.  When a protocol is forced and an UnknownProtocol override of a     *)
(* recipient names a certificate of the other protocol, resolve() ends in  *)
(* the hard-error outcome, neither success nor needs disambiguation.       *)
(***************************************************************************)
C5_OverrideAgainstForced ==
    /\ mFormat \in {OpenPGP, CMS}
    /\ \E a \in mRecipients :
          \E k \in SeqRange(FoundKeys(OverrideOf(a, UnknownProtocol))) :
              Keys[k].protocol # mFormat

C5_ForcedConflictIsError ==
    (Resolved /\ C5_OverrideAgainstForced) => result = "error"

(***************************************************************************)
(* C6.  When mixing is disallowed and the UnknownProtocol override of a    *)
(* recipient names certificates of both protocols, resolve() ends in the   *)
(* hard-error outcome.  Stated for requests that force no protocol.        *)
(***************************************************************************)
C6_OverrideNeedsMixing ==
    \E a \in mRecipients :
        \A p \in {OpenPGP, CMS} :
            \E k \in SeqRange(FoundKeys(OverrideOf(a, UnknownProtocol))) :
                Keys[k].protocol = p

C6_MixedOverrideIsError ==
    (Resolved /\ ~mAllowMixed /\ mFormat = UnknownProtocol /\ C6_OverrideNeedsMixing)
    => result = "error"

(***************************************************************************)
(* C7.  For a recipient with both a protocol-specific override and an      *)
(* UnknownProtocol override, the certificates assigned after resolve() are *)
(* exactly those of the UnknownProtocol override.  Stated for requests     *)
(* that allow mixing and force no protocol.                                *)
(***************************************************************************)
C7_CommonOverrideWins ==
    (Resolved /\ mAllowMixed /\ mFormat = UnknownProtocol) =>
        \A a \in mRecipients :
            (/\ HasOverride(a, UnknownProtocol)
             /\ \E p \in {OpenPGP, CMS} : HasOverride(a, p))
            => AssignedKeys(a) = SeqRange(FoundKeys(OverrideOf(a, UnknownProtocol)))

(***************************************************************************)
(* C8.  With mixing allowed and no forced protocol, a recipient whose      *)
(* UnknownProtocol override resolves to at least one certificate is        *)
(* assigned exactly the override's certificates, all of them, in order.    *)
(***************************************************************************)
C8_CommonOverrideKept ==
    (Resolved /\ mAllowMixed /\ mFormat = UnknownProtocol) =>
        \A a \in mRecipients :
            FoundKeys(OverrideOf(a, UnknownProtocol)) # <<>>
            => mEncKeys[a][UnknownProtocol] = FoundKeys(OverrideOf(a, UnknownProtocol))

(***************************************************************************)
(* C9.  A certificate named by an override filed under OpenPGP or CMS      *)
(* whose own protocol is the other one is never placed in the slot of the  *)
(* protocol the override is filed under.                                   *)
(***************************************************************************)
C9_WrongProtocolIgnored ==
    \A a \in DOMAIN mEncKeys : \A p \in {OpenPGP, CMS} :
        \A k \in SeqRange(FoundKeys(OverrideOf(a, p))) :
            Keys[k].protocol # p => k \notin SeqRange(mEncKeys[a][p])

(***************************************************************************)
(* C10.  When protocol P is forced, an override entry filed under the      *)
(* other protocol changes nothing: status, signing keys and encryption     *)
(* keys equal those of the same request without the entry, and a recipient *)
(* with only such an entry gets P's automatically looked-up keys.          *)
(***************************************************************************)
C10_WithoutEntry(a) ==
    [Request EXCEPT !.overrides =
        [x \in DOMAIN mOverrides |->
            IF x = a THEN MapRemove(mOverrides[x], Other(mFormat))
            ELSE mOverrides[x]]]

C10_OtherProtocolOverrideSkipped ==
    (Resolved /\ mFormat \in {OpenPGP, CMS}) =>
        \A a \in DOMAIN mOverrides :
            HasOverride(a, Other(mFormat)) =>
                /\ [result |-> result, sigKeys |-> mSigKeys, encKeys |-> mEncKeys]
                     = Outcome(C10_WithoutEntry(a), EmptyMap, FreshEncKeys)
                /\ (a \in mRecipients /\ DOMAIN mOverrides[a] = {Other(mFormat)})
                     => mEncKeys[a][mFormat] = AutoEnc(a, mFormat)

C10_Witness ==
    /\ Resolved
    /\ mFormat \in {OpenPGP, CMS}
    /\ \E a \in mRecipients \cap DOMAIN mOverrides :
          /\ DOMAIN mOverrides[a] = {Other(mFormat)}
          /\ mEncKeys[a][mFormat] # <<>>
    /\ result = "true"

(***************************************************************************)
(* C11.  For a recipient with an override filed under OpenPGP or CMS, the  *)
(* protocol not forced out, no UnknownProtocol override for the recipient  *)
(* and every reference found in the store, that protocol's slot of the     *)
(* recipient after resolve() is exactly the referenced certificates in the *)
(* order given: none is filtered out, none is added or substituted by      *)
(* automatic lookup.                                                       *)
(***************************************************************************)
C11_TrustedOverride(a, p) ==
    /\ HasOverride(a, p)
    /\ ~HasOverride(a, UnknownProtocol)
    /\ mFormat # Other(p)
    /\ FoundKeys(OverrideOf(a, p)) = OverrideOf(a, p)

C11_Dropped(p) ==
    pc = "Finalized" /\ removedProtocol(mPreferredProtocol, pgpOnly, cmsOnly) = p

C12_Candidates(a, p) == findBestByMailBox(a, p, FALSE, TRUE)

C12_Unacceptable(k) ==
    \/ Keys[k].isRevoked
    \/ Keys[k].isExpired
    \/ Keys[k].isDisabled
    \/ ~Keys[k].canEncrypt
    \/ (mCompliance = "de-vs" /\ ~Keys[k].isDeVs)

C12_RejectedGroup(a, p) ==
    /\ Len(C12_Candidates(a, p)) > 1
    /\ \E k \in SeqRange(C12_Candidates(a, p)) : C12_Unacceptable(k)

C12_GroupRejection ==
    \A a \in DOMAIN mEncKeys : \A p \in {OpenPGP, CMS} :
        /\ C12_RejectedGroup(a, p) => mEncKeys[a][p] = <<>>
        /\ mEncKeys[a][p] \in {<<>>, C12_Candidates(a, p)}

\* both protocols have been looked up: one recipient has a group taken
\* whole, one has a group rejected for a single member
C12_Witness ==
    /\ pc = "ProtocolBResolved"
    /\ mFormat = UnknownProtocol
    /\ \E a \in mRecipients :
          /\ Len(mEncKeys[a][OpenPGP]) = 2
          /\ mEncKeys[a][OpenPGP] = C12_Candidates(a, OpenPGP)
    /\ \E a \in mRecipients : \E p \in {OpenPGP, CMS} :
          /\ C12_RejectedGroup(a, p)
          /\ Cardinality({k \in SeqRange(C12_Candidates(a, p)) : C12_Unacceptable(k)}) = 1
          /\ mEncKeys[a][p] = <<>>

(***************************************************************************)
(* C13.  The merge step, for each recipient whose UnknownProtocol slot is  *)
(* empty when it runs: both lists empty leaves the slot empty; exactly one *)
(* non-empty list is copied; of two non-empty lists the one with the       *)
(* strictly higher minimum validity (over its certificates, with respect   *)
(* to the recipient's address) is copied, and on equal minimum validity    *)
(* the CMS list if CMS is preferred, else the OpenPGP list.  The choice    *)
(* reads only the recipient's own two lists and the preference.            *)
(***************************************************************************)
C13_KeyValidity(k, a) ==
    LET uids == Keys[k].userIDs
        matching == {i \in 1..Len(uids) : uids[i].addrSpec = a}
    IN  IF matching # {}
        THEN uids[CHOOSE i \in matching : \A j \in matching : i <= j].validity
        ELSE CHOOSE v \in {uids[i].validity : i \in 1..Len(uids)} \cup {Unknown} :
                \A i \in 1..Len(uids) : v >= uids[i].validity

C13_MinimumValidity(keys, a) ==
    CHOOSE v \in {C13_KeyValidity(k, a) : k \in SeqRange(keys)} :
        \A k \in SeqRange(keys) : v <= C13_KeyValidity(k, a)

C13_Choice(keysA, keysB, a, preferred) ==
    IF keysA = <<>> THEN keysB
    ELSE IF keysB = <<>> THEN keysA
    ELSE IF C13_MinimumValidity(keysA, a) > C13_MinimumValidity(keysB, a) THEN keysA
    ELSE IF C13_MinimumValidity(keysB, a) > C13_MinimumValidity(keysA, a) THEN keysB
    ELSE IF preferred = CMS THEN keysB
    ELSE keysA

C13_MergeStep ==
    /\ pc = "ProtocolBResolved"
    /\ pc' = "Merged"
    /\ mAllowMixed
    /\ mFormat = UnknownProtocol

C13_MergeRule ==
    [][C13_MergeStep =>
         \A a \in DOMAIN mEncKeys :
             mEncKeys[a][UnknownProtocol] = <<>> =>
                 mEncKeys'[a][UnknownProtocol]
                     = C13_Choice(mEncKeys[a][OpenPGP], mEncKeys[a][CMS], a,
                                  mPreferredProtocol)]_vars

\* CMS is preferred; one recipient gets its CMS list on a tie of a
\* two-certificate list against a single certificate, another gets its
\* OpenPGP list for the strictly higher validity
C13_Witness ==
    /\ pc = "Merged"
    /\ mAllowMixed
    /\ mFormat = UnknownProtocol
    /\ mPreferredProtocol = CMS
    /\ \E a \in mRecipients :
          /\ Len(mEncKeys[a][OpenPGP]) = 2
          /\ mEncKeys[a][CMS] # <<>>
          /\ C13_MinimumValidity(mEncKeys[a][OpenPGP], a)
                = C13_MinimumValidity(mEncKeys[a][CMS], a)
          /\ \E k \in SeqRange(mEncKeys[a][OpenPGP]) :
                C13_KeyValidity(k, a) > C13_MinimumValidity(mEncKeys[a][OpenPGP], a)
          /\ mEncKeys[a][UnknownProtocol] = mEncKeys[a][CMS]
    /\ \E b \in mRecipients :
          /\ mEncKeys[b][CMS] # <<>>
          /\ mEncKeys[b][UnknownProtocol] = mEncKeys[b][OpenPGP]
          /\ mEncKeys[b][UnknownProtocol] # mEncKeys[b][CMS]

(***************************************************************************)
(* C14.  Determinism: the outcome of resolve() (status, signing keys per   *)
(* protocol, encryption keys per address and protocol, in list order) is a *)
(* function of the request alone, so two requests with the same inputs     *)
(* against the same store end with the same outcome, however and in        *)
(* whatever order the inputs were supplied.                                *)
(***************************************************************************)
C14_Outcome == [result |-> result, sigKeys |-> mSigKeys, encKeys |-> mEncKeys]

C15_FatalInputHalts ==
    (Resolved /\ mFatalErrors # <<>>) => result # "true"

(***************************************************************************)
(* C16.  A single certificate placed in a recipient's OpenPGP or CMS slot  *)
(* by automatic resolution is not revoked, not expired, not disabled, can  *)
(* encrypt, is compliant when compliance mode is active and has a user id  *)
(* of the recipient's address with validity at or above the configured     *)
(* minimum validity; when the store's single candidate fails one of these, *)
(* the slot stays empty.                                                   *)
(***************************************************************************)
C16_Acceptable(k, a) ==
    /\ ~Keys[k].isRevoked
    /\ ~Keys[k].isExpired
    /\ ~Keys[k].isDisabled
    /\ Keys[k].canEncrypt
    /\ mCompliance = "de-vs" => Keys[k].isDeVs
    /\ \E i \in 1..Len(Keys[k].userIDs) :
          /\ Keys[k].userIDs[i].addrSpec = a
          /\ Keys[k].userIDs[i].validity >= mMinimumValidity

C16_SingleCertificateAcceptable ==
    \A a \in DOMAIN mEncKeys : \A p \in {OpenPGP, CMS} :
        LET candidates == findBestByMailBox(a, p, FALSE, TRUE)
        IN  /\ Len(mEncKeys[a][p]) = 1 => C16_Acceptable(mEncKeys[a][p][1], a)
            /\ (Len(candidates) = 1 /\ ~C16_Acceptable(candidates[1], a))
                  => mEncKeys[a][p] = <<>>

\* with the minimum validity raised to Full, a valid certificate of
\* Marginal validity has been refused and another single certificate placed
C16_Witness ==
    /\ pc = "ProtocolBResolved"
    /\ mMinimumValidity = Full
    /\ \E a \in mRecipients :
          LET candidates == findBestByMailBox(a, OpenPGP, FALSE, TRUE)
          IN  /\ mFormat # CMS
              /\ Len(candidates) = 1
              /\ ValidEncryptionKey(candidates[1])
              /\ keyValidity(candidates[1], a) = Marginal
              /\ mEncKeys[a][OpenPGP] = <<>>
    /\ \E b \in mRecipients : \E p \in {OpenPGP, CMS} : Len(mEncKeys[b][p]) = 1

(***************************************************************************)
(* C17.  Signing resolution is all-or-nothing per protocol: when one of    *)
(* the store's candidates for the sender is revoked, expired, disabled,    *)
(* cannot sign, has no secret key or (in compliance mode) is not           *)
(* compliant, the protocol's signing slot is not populated; otherwise the  *)
(* whole non-empty candidate list is stored.  A slot filled by automatic   *)
(* lookup holds the complete candidate list and no unacceptable            *)
(* certificate.                                                            *)
(***************************************************************************)
C17_Candidates(p) == findBestByMailBox(mSender, p, TRUE, FALSE)

C17_Unacceptable(k) ==
    \/ Keys[k].isRevoked
    \/ Keys[k].isExpired
    \/ Keys[k].isDisabled
    \/ ~Keys[k].canSign
    \/ ~Keys[k].hasSecret
    \/ (mCompliance = "de-vs" /\ ~Keys[k].isDeVs)

C17_Rejected(p) == \E k \in SeqRange(C17_Candidates(p)) : C17_Unacceptable(k)

\* both lookups have run and nothing has been removed from the result yet
C17_LookedUp(p) ==
    /\ pc \in {"ProtocolBResolved", "Merged", "NeedsDisambiguation"}
    /\ mFormat # Other(p)

C17_SigningAllOrNothing ==
    \A p \in {OpenPGP, CMS} :
        /\ C17_Rejected(p) => p \notin DOMAIN mSigKeys
        /\ p \in DOMAIN mSigKeys => mSigKeys[p] = C17_Candidates(p)
        /\ (C17_LookedUp(p) /\ ~C17_Rejected(p) /\ C17_Candidates(p) # <<>>)
              => (p \in DOMAIN mSigKeys /\ mSigKeys[p] = C17_Candidates(p))

\* the sender's two OpenPGP candidates are stored whole, its CMS candidates
\* are refused for one member
C17_Witness ==
    /\ pc = "ProtocolBResolved"
    /\ mSign
    /\ mFormat = UnknownProtocol
    /\ OpenPGP \in DOMAIN mSigKeys
    /\ Len(mSigKeys[OpenPGP]) = 2
    /\ Len(C17_Candidates(CMS)) = 2
    /\ Cardinality({k \in SeqRange(C17_Candidates(CMS)) : C17_Unacceptable(k)}) = 1
    /\ CMS \notin DOMAIN mSigKeys

(***************************************************************************)
(* C18.  Decision rule.  With pgpOnly: no recipient is unresolved under    *)
(* OpenPGP and signing is not required or an OpenPGP signing key exists,   *)
(* and cmsOnly likewise for CMS, resolve() ends in "needs disambiguation"  *)
(* exactly when neither holds and some recipient is unresolved under both  *)
(* protocols or signing is required and the signing key of at least one    *)
(* of the two protocols is missing; in every other case it finalizes.      *)
(***************************************************************************)
C18_Complete(p) ==
    /\ \A a \in DOMAIN mEncKeys : mEncKeys[a][p] # <<>>
    /\ ~mSign \/ p \in DOMAIN mSigKeys

C18_NeedsDisambiguation ==
    /\ ~C18_Complete(OpenPGP)
    /\ ~C18_Complete(CMS)
    /\ \/ \E a \in DOMAIN mEncKeys :
              mEncKeys[a][OpenPGP] = <<>> /\ mEncKeys[a][CMS] = <<>>
       \/ mSign /\ \E p \in {OpenPGP, CMS} : p \notin DOMAIN mSigKeys

C19_Dropped == IF pgpOnly THEN CMS ELSE OpenPGP

C19_OtherProtocolDropped ==
    (Resolved /\ pc = "Finalized" /\ pgpOnly # cmsOnly /\ mOverrides = EmptyMap)
    => /\ C19_Dropped \notin DOMAIN signingKeys
       /\ \A a \in DOMAIN mEncKeys :
            \A k \in AssignedKeys(a) : Keys[k].protocol # C19_Dropped

(***************************************************************************)
(* C20.  Override entries for an address that is not among the configured  *)
(* sender and recipients are ignored: status, signing keys, encryption     *)
(* keys and with them the unresolved lists are those of the same request   *)
(* without these entries, and no slot exists for such an address, whether  *)
(* the overrides were set before or after the addresses.                   *)
(***************************************************************************)
C20_WithoutUnknownAddresses ==
    [Request EXCEPT !.overrides =
        [a \in DOMAIN mOverrides \cap mRecipients |-> mOverrides[a]]]

C20_UnknownAddressIgnored ==
    /\ DOMAIN mEncKeys = mRecipients
    /\ (Terminal /\ DOMAIN mOverrides \ mRecipients # {}) =>
          [result |-> result, sigKeys |-> mSigKeys, encKeys |-> mEncKeys]
            = Outcome(C20_WithoutUnknownAddresses, EmptyMap, FreshEncKeys)

\* an encrypting request with recipients and an override for somebody else
\* has been resolved
C20_Witness ==
    /\ Resolved
    /\ mEncrypt
    /\ mRecipients # {}
    /\ DOMAIN mOverrides \ mRecipients # {}
    /\ result = "true"
    /\ \A a \in DOMAIN mOverrides \ mRecipients : a \notin DOMAIN mEncKeys


(***************************************************************************)
(* C21.  An override reference the store does not hold is skipped and      *)
(* resolution goes on: after the override stage each recipient's OpenPGP   *)
(* and CMS slot holds exactly the found certificates of its entries, in    *)
(* the order given, and the outcome of resolve() is the outcome of the     *)
(* same request with the unfound references deleted and the entries left   *)
(* without any reference deleted too, so an address none of whose          *)
(* references is found is resolved as if it had no override.               *)
(***************************************************************************)
\* the found certificates of protocol p in an UnknownProtocol list, in order
C21_OfProtocol(keys, p) == SelectSeq(keys, LAMBDA k : Keys[k].protocol = p)

\* what the entries of address a put into its slot p
C21_Applied(a, p) ==
    (IF HasOverride(a, p) /\ ~skipWrongFormat(mFormat, p)
     THEN FoundKeys(OverrideOf(a, p)) ELSE <<>>)
    \o C21_OfProtocol(FoundKeys(OverrideOf(a, UnknownProtocol)), p)

\* the override table with the unfound references and the empty entries deleted
C21_FoundOnly ==
    LET kept(a) == {p \in DOMAIN mOverrides[a] : FoundKeys(mOverrides[a][p]) # <<>>}
    IN  [a \in {x \in DOMAIN mOverrides : kept(x) # {}} |->
            [p \in kept(a) |-> FoundKeys(mOverrides[a][p])]]

C21_HasMissing ==
    \E a \in DOMAIN mOverrides : \E p \in DOMAIN mOverrides[a] :
        FoundKeys(mOverrides[a][p]) # mOverrides[a][p]

C21_MissingReferenceSkipped ==
    /\ (pc = "OverridesApplied" /\ mEncrypt) =>
          \A a \in mRecipients : \A p \in {OpenPGP, CMS} :
              mEncKeys[a][p] = C21_Applied(a, p)
    /\ (Terminal /\ C21_HasMissing) =>
          [result |-> result, sigKeys |-> mSigKeys, encKeys |-> mEncKeys]
            = Outcome([Request EXCEPT !.overrides = C21_FoundOnly],
                      EmptyMap, FreshEncKeys)

\* resolve() succeeded for the recipient f whose override names an unfound
\* reference between two found ones, and f also has an entry none of whose
\* references is found
C21_Witness ==
    /\ Resolved
    /\ result = "true"
    /\ "f" \in mRecipients
    /\ \E p \in Protocols : OverrideOf("f", p) = <<"Cm", "NF", "Pm">>
    /\ \E p \in Protocols : OverrideOf("f", p) = <<"NF", "NG">>
    /\ AssignedKeys("f") \cap {"Cm", "Pm"} # {}


(***************************************************************************)
(* C22.  Signing certificates set by the caller.  While signing is not     *)
(* requested the resolver holds no signing certificate, whatever           *)
(* setSigningKeys was given.  With signing requested, setSigningKeys       *)
(* appends the found certificates of its list, in order and untested, to   *)
(* the slot of each certificate's protocol, and the per-protocol stage of  *)
(* resolve() leaves a slot that is already set exactly as it is, whatever  *)
(* the store holds for the sender.                                         *)
(***************************************************************************)
C22_OfProtocol(keys, p) == SelectSeq(keys, LAMBDA k : Keys[k].protocol = p)

C22_NoEffectWithoutSigning == ~mSign => mSigKeys = EmptyMap

C22_SetStep ==
    (pc = "Start" /\ pc' = "Start" /\ mSigKeys' # mSigKeys)
    => /\ mSign
       /\ DOMAIN mSigKeys' \subseteq {OpenPGP, CMS}
       /\ \E fingerprints \in SigningKeyLists :
            \A p \in {OpenPGP, CMS} :
                MapValue(mSigKeys', p)
                  = MapValue(mSigKeys, p) \o C22_OfProtocol(FoundKeys(fingerprints), p)

C22_StageStep ==
    /\ (pc = "OverridesApplied" /\ pc' = "ProtocolAResolved"
          /\ OpenPGP \in DOMAIN mSigKeys)
        => /\ OpenPGP \in DOMAIN mSigKeys'
           /\ mSigKeys'[OpenPGP] = mSigKeys[OpenPGP]
    /\ (pc = "ProtocolAResolved" /\ pc' = "ProtocolBResolved"
          /\ CMS \in DOMAIN mSigKeys)
        => /\ CMS \in DOMAIN mSigKeys'
           /\ mSigKeys'[CMS] = mSigKeys[CMS]

C22_CallerSigningKeysKept ==
    /\ []C22_NoEffectWithoutSigning
    /\ [][C22_SetStep /\ C22_StageStep]_vars

\* both stages have run for the sender m, whose OpenPGP slot the caller set to
\* two certificates without a secret key, one of them expired, while the
\* store holds Pm for m; the CMS slot was looked up
C22_Witness ==
    /\ pc = "ProtocolBResolved"
    /\ mSign
    /\ mSender = "m"
    /\ AutoSign(OpenPGP) = <<"Pm">>
    /\ MapValue(mSigKeys, OpenPGP) = <<"Px", "Pf">>
    /\ MapValue(mSigKeys, CMS) = <<"Cm">>


(***************************************************************************)
(* C23.  With protocol P forced, resolve() does no lookup in the other     *)
(* protocol Q: the stage of Q changes neither signing keys nor encryption  *)
(* slots, no step of resolve() puts a certificate into Q's signing slot    *)
(* (so it holds at most what the caller set), and after resolve() the Q    *)
(* slot of every recipient holds at most certificates named by that        *)
(* recipient's overrides.                                                  *)
(***************************************************************************)
C23_Forced == mFormat \in {OpenPGP, CMS}

\* the protocol forced out
C23_Q == Other(mFormat)

C23_OverrideDerived(a) ==
    IF a \in DOMAIN mOverrides
    THEN UNION {SeqRange(FoundKeys(mOverrides[a][p])) : p \in DOMAIN mOverrides[a]}
    ELSE {}

C23_StageSkipped ==
    ((\/ pc = "OverridesApplied" /\ pc' = "ProtocolAResolved" /\ mFormat = CMS
      \/ pc = "ProtocolAResolved" /\ pc' = "ProtocolBResolved" /\ mFormat = OpenPGP))
    => (mSigKeys' = mSigKeys /\ mEncKeys' = mEncKeys)

\* every step of resolve()
C23_NoSigningLookup ==
    (C23_Forced /\ pc' # "Start" /\ pc' # pc)
    => MapValue(mSigKeys', C23_Q) \in {MapValue(mSigKeys, C23_Q), <<>>}

C23_OnlyOverrides ==
    (C23_Forced /\ pc # "Start")
    => \A a \in DOMAIN mEncKeys :
          SeqRange(mEncKeys[a][C23_Q]) \subseteq C23_OverrideDerived(a)

C23_ForcedOutProtocolSkipped ==
    /\ []C23_OnlyOverrides
    /\ [][C23_StageSkipped /\ C23_NoSigningLookup]_vars

\* resolve() has returned with OpenPGP forced: the caller's CMS signing
\* certificate is still there, f's CMS slot holds its override and the CMS
\* slot of c is empty although the store holds a CMS certificate for c
C23_Witness ==
    /\ Resolved
    /\ mFormat = OpenPGP
    /\ mSign /\ mEncrypt
    /\ MapValue(mSigKeys, CMS) = <<"Cc">>
    /\ mRecipients = {"f", "c"}
    /\ mEncKeys["f"][CMS] = <<"Cm">>
    /\ mEncKeys["c"][CMS] = <<>>
    /\ AutoEnc("c", CMS) = <<"Cc">>


(***************************************************************************)
(* C24.  In every state, before, during and after resolve(), and for each  *)
(* of OpenPGP and CMS: the addresses unresolvedRecipients() returns and    *)
(* the addresses with a list under that protocol in encryptionKeys() are   *)
(* disjoint, and together they are the configured recipients.              *)
(***************************************************************************)
C24_ResolvedRecipients(p) ==
    IF p \in DOMAIN encryptionKeys THEN DOMAIN encryptionKeys[p] ELSE {}

C24_UnresolvedIsComplement ==
    \A p \in {OpenPGP, CMS} :
        /\ unresolvedRecipients(mEncKeys, p) \cap C24_ResolvedRecipients(p) = {}
        /\ unresolvedRecipients(mEncKeys, p) \cup C24_ResolvedRecipients(p)
             = mRecipients

\* resolve() has failed for two recipients: c has a CMS list and no OpenPGP
\* list, f has an OpenPGP list, and a merged list exists
C24_Witness ==
    /\ Resolved
    /\ result = "false"
    /\ mRecipients = {"f", "c"}
    /\ unresolvedRecipients(mEncKeys, OpenPGP) = {"c"}
    /\ C24_ResolvedRecipients(OpenPGP) = {"f"}
    /\ "c" \in C24_ResolvedRecipients(CMS)
    /\ UnknownProtocol \in DOMAIN encryptionKeys


(***************************************************************************)
(* C25.  The UnknownProtocol slot of an address is never written by the    *)
(* per-protocol stages; for an address without overrides it is empty       *)
(* after resolve() when the merge did not run (mixing disallowed or a      *)
(* protocol forced) and otherwise equals the address's OpenPGP list or     *)
(* its CMS list.                                                           *)
(***************************************************************************)
C25_MergeRuns == mAllowMixed /\ mFormat = UnknownProtocol

C25_StagesLeaveSlot ==
    (pc \in {"OverridesApplied", "ProtocolAResolved"})
    => \A a \in DOMAIN mEncKeys :
          mEncKeys'[a][UnknownProtocol] = mEncKeys[a][UnknownProtocol]

C25_EmptyWithoutMerge ==
    (Resolved /\ ~C25_MergeRuns)
    => \A a \in DOMAIN mEncKeys :
          a \notin DOMAIN mOverrides => mEncKeys[a][UnknownProtocol] = <<>>

C25_OneOfTheLists ==
    (Resolved /\ C25_MergeRuns)
    => \A a \in DOMAIN mEncKeys :
          a \notin DOMAIN mOverrides
          => mEncKeys[a][UnknownProtocol] \in {mEncKeys[a][OpenPGP], mEncKeys[a][CMS]}

C25_UnspecifiedSlotProvenance ==
    /\ [](C25_EmptyWithoutMerge /\ C25_OneOfTheLists)
    /\ [][C25_StagesLeaveSlot]_vars


(***************************************************************************)
(* C26.  When resolve() ends in "needs disambiguation" it returns false    *)
(* and collapses nothing: the deciding step leaves signing keys and        *)
(* encryption keys as the stages produced them, so every protocol that is  *)
(* not forced out still has the signing keys found for the sender and the  *)
(* encryption keys found for each recipient, and unresolvedRecipients()    *)
(* returns for each protocol exactly the recipients without a key of that  *)
(* protocol, the sets the decision was taken on.                           *)
(***************************************************************************)
C26_LookedUp(p) == mFormat # Other(p)

C26_DecisionStep ==
    (pc = "Merged" /\ pc' = "NeedsDisambiguation")
    => /\ result' = "false"
       /\ mSigKeys' = mSigKeys
       /\ mEncKeys' = mEncKeys

C26_Reported(p) ==
    {a \in mRecipients :
        p \notin DOMAIN encryptionKeys \/ a \notin DOMAIN encryptionKeys[p]}

C26_AllStillPresent ==
    pc = "NeedsDisambiguation"
    => /\ result = "false"
       /\ unresolvedRecipients(mEncKeys, OpenPGP) = unresolvedPGP
       /\ unresolvedRecipients(mEncKeys, CMS) = unresolvedCMS
       /\ \A p \in {OpenPGP, CMS} :
            /\ unresolvedRecipients(mEncKeys, p) = C26_Reported(p)
            /\ (mSign /\ C26_LookedUp(p) /\ AutoSign(p) # <<>>)
               => MapValue(signingKeys, p) # <<>>
            /\ \A a \in mRecipients :
                  (C26_LookedUp(p) /\ AutoEnc(a, p) # <<>>)
                  => (p \in DOMAIN encryptionKeys /\ a \in DOMAIN encryptionKeys[p])

C26_NothingCollapsed ==
    /\ []C26_AllStillPresent
    /\ [][C26_DecisionStep]_vars

\* the user is needed although signing keys of one protocol and, for one
\* recipient, encryption keys of both protocols were found
C26_Witness ==
    /\ pc = "NeedsDisambiguation"
    /\ mSign /\ mEncrypt
    /\ mSigKeys # EmptyMap
    /\ unresolvedPGP # {}
    /\ \E a \in mRecipients : mEncKeys[a][OpenPGP] # <<>> /\ mEncKeys[a][CMS] # <<>>


(***************************************************************************)
(* C27.  A resolve() call with signing or encryption requested is one      *)
(* pass: its position only moves along Start, OverridesApplied,            *)
(* ProtocolAResolved, ProtocolBResolved, Merged and then to Finalized      *)
(* (status true) or NeedsDisambiguation (status false); inside the call    *)
(* exactly one stage can run and no configuration call can; and a call     *)
(* that has been entered reaches one of the two ends.                      *)
(***************************************************************************)
C27_Order ==
    {<<"Start", "OverridesApplied">>, <<"OverridesApplied", "ProtocolAResolved">>,
     <<"ProtocolAResolved", "ProtocolBResolved">>, <<"ProtocolBResolved", "Merged">>,
     <<"Merged", "Finalized">>, <<"Merged", "NeedsDisambiguation">>}

C27_InCall ==
    pc \in {"OverridesApplied", "ProtocolAResolved", "ProtocolBResolved", "Merged"}

C27_StepOrder ==
    /\ (pc' # pc /\ (mSign \/ mEncrypt)) => <<pc, pc'>> \in C27_Order
    /\ C27_InCall => (pc' # pc /\ config' = config)

C27_OneStage ==
    /\ C27_InCall => (mSign \/ mEncrypt)
    /\ pc = "OverridesApplied" <=> ENABLED resolve_OpenPGP
    /\ pc = "ProtocolAResolved" <=> ENABLED resolve_CMS
    /\ pc = "ProtocolBResolved" <=> ENABLED resolve_merge
    /\ pc = "Merged" <=> ENABLED resolve_decide
    /\ pc # "Start" => ~ENABLED resolve_overrides
    /\ Resolved => (pc = "Finalized" <=> result = "true")
    /\ Resolved => (pc = "NeedsDisambiguation" <=> result = "false")

C28_FirstCall == Outcome(Request, EmptyMap, FreshEncKeys)

C28_SameStatusAndKeys ==
    Terminal
    => /\ result = C28_FirstCall.result
       /\ signingKeys = C28_FirstCall.sigKeys
       /\ encryptionKeys = encryptionKeysOf(C28_FirstCall.encKeys)
       /\ \A p \in {OpenPGP, CMS} :
            unresolvedRecipients(mEncKeys, p)
              = unresolvedRecipients(C28_FirstCall.encKeys, p)

\* the part of C28 that is about status and unresolved recipients only
C28_SameStatus ==
    Terminal
    => /\ result = C28_FirstCall.result
       /\ \A p \in {OpenPGP, CMS} :
            unresolvedRecipients(mEncKeys, p)
              = unresolvedRecipients(C28_FirstCall.encKeys, p)

\* C28 for requests without overrides
C28_SameWithoutOverrides ==
    mOverrides = EmptyMap => C28_SameStatusAndKeys


(***************************************************************************)
(* C29.  When protocol P is forced and resolve() reports success, the      *)
(* result is P's: the collapse has not dropped P, so that signing keys of  *)
(* P are held if signing is requested and every recipient has a list in    *)
(* its P slot, and every signing and encryption certificate still held is  *)
(* a certificate of protocol P.                                            *)
(***************************************************************************)
C29_ForcedSolutionKept ==
    (Resolved /\ result = "true" /\ mFormat \in {OpenPGP, CMS})
    => /\ mSign => mFormat \in DOMAIN signingKeys
       /\ \A a \in mRecipients : mEncKeys[a][mFormat] # <<>>
       /\ \A a \in mRecipients : \A k \in AssignedKeys(a) : Keys[k].protocol = mFormat
       /\ \A p \in DOMAIN signingKeys :
            \A k \in SeqRange(signingKeys[p]) : Keys[k].protocol = mFormat

\* C29 without overrides and caller-set signing keys of the other protocol
C29_ForcedSolutionKeptAutomatic ==
    (mOverrides = EmptyMap /\ Other(mFormat) \notin DOMAIN mSigKeys)
    => C29_ForcedSolutionKept


(***************************************************************************)
(* C30.  When resolve() reports success for a request with signing or      *)
(* encryption, what it retains is complete: every recipient, the sender    *)
(* that setSender added included, has a list in encryptionKeys(), and if   *)
(* signing is requested signingKeys() holds a non-empty list; the removal  *)
(* of the dropped protocol does not break this.                            *)
(***************************************************************************)
C30_SenderIsRecipient ==
    (mEncrypt /\ mSender # "") => mSender \in mRecipients

C30_SuccessIsComplete ==
    /\ C30_SenderIsRecipient
    /\ (Resolved /\ result = "true")
       => /\ \A a \in mRecipients :
                \E p \in DOMAIN encryptionKeys : a \in DOMAIN encryptionKeys[p]
          /\ mSign => \E p \in DOMAIN signingKeys : signingKeys[p] # <<>>

\* a signed and encrypted request for the sender and one more recipient has
\* succeeded by dropping the one protocol that was not complete
C30_Witness ==
    /\ Resolved
    /\ result = "true"
    /\ mSign /\ mEncrypt
    /\ mSender \in mRecipients
    /\ Cardinality(mRecipients) = 2
    /\ pgpOnly # cmsOnly
    /\ ~mAllowMixed

====
